---- MODULE Spec2Model ----
(***************************************************************************)
(* Keep-alive pinger (src/main.py): ping_all fans ping_backend out over a  *)
(* thread pool; ping_backend retries _attempt (HEAD, then fallback GET).   *)
(* Time is counted in abstract ticks; a request's duration is an input.    *)
(***************************************************************************)
EXTENDS Integers, Sequences, FiniteSets, TLC

\* ----------------------------------------------------------------------
\* Configuration (src/main.py:19-24)
\* ----------------------------------------------------------------------
TIMEOUT_SECONDS == 8
RETRIES == 3
ACCEPTABLE_CODES == {200, 204}
ACCEPTABLE_REDIRECTS == {301, 302, 307, 308}
MAX_WORKERS == 8

\* Seconds are counted in quanta of 1/160 s for the sleep durations, which
\* the code computes in binary floating point. The quantum stands for the
\* spacing of the doubles just below 0.25 (2^-55 in the source): doubles in
\* [0.5, 1) are spaced 4 quanta apart and doubles in [1, 2) 8 quanta apart,
\* as in IEEE 754, only with a shorter significand.
Second == 160
\* BACKOFF_BASE = 0.6, in quanta
BACKOFF_BASE == 96
\* the 0.25 of random.uniform(0, 0.25), in quanta
JITTER_SPAN == 40

\* ----------------------------------------------------------------------
\* Bounds of the model
\* ----------------------------------------------------------------------
\* longest duration, in ticks, of a request that is answered
MaxDur == 2
\* number of targets beyond the worker cap in the long target list
MaxExtra == 1
\* greatest number of query parameters of a URL given to _with_cache_bust
MaxParams == 2
\* latest Unix time, in seconds, at which _with_cache_bust is called
MaxClock == 2

\* ----------------------------------------------------------------------
\* Targets and what the network answers for each of them
\* ----------------------------------------------------------------------
UrlOk    == "https://ok.example/"
UrlFlaky == "https://flaky.example/"
UrlDead  == "https://dead.example/"
UrlAny   == "https://any.example/"
UrlBad   == "http://[bad"

\* status codes a server may answer with, besides the acceptable ones
BadCodes == {404, 500, 503}

\* urlparse(url) raises ValueError("Invalid IPv6 URL"): an unmatched bracket
\* in the network location
ParseRaises(url) == url = UrlBad

\* status codes the host of url may answer a HEAD or a GET with
Statuses(url) ==
    CASE url = UrlOk    -> {200}
      [] url = UrlFlaky -> {200, 503}
      [] url = UrlAny   -> ACCEPTABLE_CODES \cup ACCEPTABLE_REDIRECTS \cup BadCodes
      [] OTHER          -> {}

\* str(e) of the requests.RequestException a request to url may raise
Errors(url) ==
    CASE url = UrlDead -> {"timed out"}
      [] url = UrlAny  -> {"", "Connection refused"}
      [] OTHER         -> {}

\* ticks a request to url may take until its response or its exception
Durations(url) ==
    CASE url = UrlOk   -> {1}
      [] url = UrlDead -> {TIMEOUT_SECONDS}
      [] OTHER         -> 1..MaxDur

\* the long list: more entries than workers, all the same URL
LongList == [i \in 1..(MAX_WORKERS + MaxExtra) |-> UrlOk]

\* a list whose first target times out at every attempt, so that it sleeps
\* between its attempts, followed by as many targets as there are workers
SleeperList == <<UrlDead>> \o [i \in 1..MAX_WORKERS |-> UrlBad]

\* the target lists ping_all is called with
TargetLists ==
    { <<>>, <<UrlAny>>, <<UrlBad>>, <<UrlOk, UrlBad>>, <<UrlBad, UrlDead>>,
      <<UrlOk, UrlAny>>,
      <<UrlFlaky, UrlDead>>, <<UrlFlaky, UrlFlaky>>, <<UrlDead, UrlOk, UrlFlaky>>,
      LongList, SleeperList }

\* ----------------------------------------------------------------------
\* State
\* ----------------------------------------------------------------------
VARIABLES
    urls,        \* the list ping_all was called with
    mainpc,      \* position of the thread running ping_all
    workers,     \* ping_all's local: size of the pool
    submitted,   \* number of list entries submitted to the pool so far
    earlyLeft,   \* as_completed: futures found finished at entry, not yet yielded
    collected,   \* futures as_completed has already yielded
    results,     \* ping_all's local: the outcomes appended so far
    summary,     \* the summary block, once logged (a sequence of 0 or 1)
    tpc,         \* per list entry: position of its ping_backend call
    attempt,     \* per entry: ping_backend's loop variable
    res,         \* per entry: ping_backend's locals ok, status, latency, err
    headLat,     \* per entry: perf_counter() - start at the HEAD response
    sleep_s,     \* per entry: ping_backend's local sleep_s while it sleeps
    outcome,     \* per entry: the dict ping_backend returned (0 or 1)
    completed,   \* what the futures were completed with, in completion order
    trace,       \* observed: the requests of the entry's current attempt
    nAttempts,   \* observed: _attempt calls made for the entry
    nReq,        \* observed: HTTP requests sent for the entry
    nSleep,      \* observed: backoff sleeps begun for the entry
    nRet,        \* observed: returns of ping_backend for the entry
    nNoUrls,     \* observed: "No URLs configured." events
    nJitter,     \* observed: startup jitter sleeps
    clock,       \* int(time.time())
    bustIn,      \* a URL given to _with_cache_bust
    bustOnce,    \* what _with_cache_bust returned for bustIn (0 or 1)
    bustTwice    \* what it returned for bustOnce's URL (0 or 1)

mainVars == <<urls, mainpc, workers, submitted, earlyLeft, collected, results,
              summary, nNoUrls, nJitter>>
taskVars == <<tpc, attempt, res, headLat, sleep_s, outcome, completed, trace,
              nAttempts, nReq, nSleep, nRet>>
urlVars == <<clock, bustIn, bustOnce, bustTwice>>
vars == <<mainVars, taskVars, urlVars>>

Targets == 1..Len(urls)

\* ping_backend's locals before the first _attempt returns
NoResult == [ok |-> FALSE, status |-> 0, latency |-> 0, error |-> ""]

\* a URL as urlparse splits it; the query "k1=v1&k2=v2" is the sequence
\* of its fields, each a pair <<key, value>>
Url(path, query) ==
    [scheme |-> "https", netloc |-> "h.example", path |-> path, query |-> query]

QueryFields == {"a", "b", "_kick"} \X {"", "1", "2"}

RECURSIVE QueriesUpTo(_)
QueriesUpTo(n) ==
    IF n = 0 THEN {<<>>}
    ELSE QueriesUpTo(n - 1) \cup
         {Append(q, f) : q \in {p \in QueriesUpTo(n - 1) : Len(p) = n - 1},
                         f \in QueryFields}

\* the URLs _with_cache_bust is applied to
BustInputs == {Url(p, q) : p \in {"/", "/p"}, q \in QueriesUpTo(MaxParams)}

\* ping_all has not begun on list l
RunInit(l) ==
    /\ urls = l
    /\ mainpc = "start"
    /\ workers = 0
    /\ submitted = 0
    /\ earlyLeft = 0
    /\ collected = {}
    /\ results = <<>>
    /\ summary = <<>>
    /\ tpc = [i \in Targets |-> "unsubmitted"]
    /\ attempt = [i \in Targets |-> 0]
    /\ res = [i \in Targets |-> NoResult]
    /\ headLat = [i \in Targets |-> 0]
    /\ sleep_s = [i \in Targets |-> 0]
    /\ outcome = [i \in Targets |-> <<>>]
    /\ completed = <<>>
    /\ trace = [i \in Targets |-> <<>>]
    /\ nAttempts = [i \in Targets |-> 0]
    /\ nReq = [i \in Targets |-> 0]
    /\ nSleep = [i \in Targets |-> 0]
    /\ nRet = [i \in Targets |-> 0]
    /\ nNoUrls = 0
    /\ nJitter = 0

\* the run of ping_all over one of the target lists; the URL builder is
\* looked at on its own, under SpecUrl
Init ==
    /\ \E l \in TargetLists : RunInit(l)
    /\ clock = 0
    /\ bustIn = Url("/", <<>>)
    /\ bustOnce = <<>>
    /\ bustTwice = <<>>

\* ----------------------------------------------------------------------
\* _with_cache_bust (src/main.py:43-49)
\* ----------------------------------------------------------------------
\* parse_qsl(query), keep_blank_values left False: a field whose value is
\* empty is dropped
NotBlank(f) == f[2] # ""
ParseQsl(q) == SelectSeq(q, NotBlank)

\* d[k] = v on a dict held as the sequence of its items: a key already
\* present keeps its place and takes the new value, a new key goes last
DictSet(d, k, v) ==
    IF \E n \in 1..Len(d) : d[n][1] = k
    THEN [n \in 1..Len(d) |-> IF d[n][1] = k THEN <<k, v>> ELSE d[n]]
    ELSE Append(d, <<k, v>>)

\* dict(pairs): the items are set one after the other
RECURSIVE DictFrom(_, _)
DictFrom(d, pairs) ==
    IF pairs = <<>> THEN d
    ELSE DictFrom(DictSet(d, Head(pairs)[1], Head(pairs)[2]), Tail(pairs))

\* lines 45-49 at Unix time t: urlencode writes the items of the dict in
\* their order, urlunparse puts the other parts back as parsed
WithCacheBust(u, t) ==
    [u EXCEPT !.query = DictSet(DictFrom(<<>>, ParseQsl(u.query)), "_kick", ToString(t))]

\* SpecUrl: _with_cache_bust on its own, no run of ping_all
InitUrl ==
    /\ RunInit(<<>>)
    /\ clock = 0
    /\ bustIn \in BustInputs
    /\ bustOnce = <<>>
    /\ bustTwice = <<>>

\* a second passes
Tick ==
    /\ clock < MaxClock
    /\ clock' = clock + 1
    /\ UNCHANGED <<bustIn, bustOnce, bustTwice>>
    /\ UNCHANGED <<mainVars, taskVars>>

\* _with_cache_bust(url)
BustOnce ==
    /\ bustOnce = <<>>
    /\ bustOnce' = <<WithCacheBust(bustIn, clock)>>
    /\ UNCHANGED <<clock, bustIn, bustTwice>>
    /\ UNCHANGED <<mainVars, taskVars>>

\* _with_cache_bust(_with_cache_bust(url))
BustTwice ==
    /\ bustOnce # <<>>
    /\ bustTwice = <<>>
    /\ bustTwice' = <<WithCacheBust(bustOnce[1], clock)>>
    /\ UNCHANGED <<clock, bustIn, bustOnce>>
    /\ UNCHANGED <<mainVars, taskVars>>

NextUrl ==
    \/ Tick
    \/ BustOnce
    \/ BustTwice

SpecUrl == InitUrl /\ [][NextUrl]_vars

\* mutant: the redirect codes are not accepted
AcceptableNoRedirects(sc) == sc \in ACCEPTABLE_CODES

\* ----------------------------------------------------------------------
\* _attempt: one attempt, HEAD then fallback GET (src/main.py:52-75)
\* ----------------------------------------------------------------------
\* the status test of lines 60 and 69
Acceptable(sc) == sc \in ACCEPTABLE_CODES \/ sc \in ACCEPTABLE_REDIRECTS

\* f"Unexpected status {sc}"
UnexpectedStatus(sc) == "Unexpected status " \o ToString(sc)

\* return True, sc, latency, ""
Success(sc, lat) == [ok |-> TRUE, status |-> sc, latency |-> lat, error |-> ""]

\* mutant: an unexpected status is returned as a success
FailureAsSuccess(sc, lat) == Success(sc, lat)

\* return False, sc, latency, f"Unexpected status {sc}"
Failure(sc, lat) ==
    [ok |-> FALSE, status |-> sc, latency |-> lat, error |-> UnexpectedStatus(sc)]

\* mutant: the sentinel is 0
TransportFailureZero(lat, m) ==
    [ok |-> FALSE, status |-> 0, latency |-> lat, error |-> m]

\* except requests.RequestException as e: return False, -1, latency, str(e)
TransportFailure(lat, m) ==
    [ok |-> FALSE, status |-> -1, latency |-> lat, error |-> m]

\* mutant: the GET status is not classified
GetResultUnclassified(sc, lat) == Failure(sc, lat)

\* what _attempt returns once the GET is answered with sc
GetResult(sc, lat) ==
    IF Acceptable(sc) THEN Success(sc, lat) ELSE Failure(sc, lat)

\* a request as the network saw it: answered with a status, or failed with
\* an exception of text m; at = ticks since the attempt began
Answered(method, sc, t) ==
    [method |-> method, answered |-> TRUE, status |-> sc, msg |-> "", at |-> t]
Unanswered(method, m, t) ==
    [method |-> method, answered |-> FALSE, status |-> 0, msg |-> m, at |-> t]

\* mutant: attempts are numbered from zero
SuccessOutcomeZeroBased(url, r, k) ==
    [url |-> url, ok |-> TRUE, status |-> r.status, latency |-> r.latency,
     attempts |-> k - 1, error |-> ""]

\* ----------------------------------------------------------------------
\* ping_backend: retries around _attempt (src/main.py:78-94)
\* ----------------------------------------------------------------------
\* the dict returned on success, at attempt k
SuccessOutcome(url, r, k) ==
    [url |-> url, ok |-> TRUE, status |-> r.status, latency |-> r.latency,
     attempts |-> k, error |-> ""]

\* the dict returned after the loop, from the locals the last attempt left
FailOutcome(url, r) ==
    [url |-> url, ok |-> FALSE, status |-> r.status, latency |-> r.latency,
     attempts |-> RETRIES, error |-> r.error]

\* mutant: the loop bound is off by one
MoreAttemptsOffByOne(k) == k <= RETRIES

\* if attempt < RETRIES (the loop has another iteration)
MoreAttempts(k) == k < RETRIES

\* ping_backend returns dict d: its frame, and _attempt's, are gone
Return(i, d) ==
    /\ tpc' = [tpc EXCEPT ![i] = "returned"]
    /\ outcome' = [outcome EXCEPT ![i] = <<d>>]
    /\ completed' = Append(completed, d)
    /\ nRet' = [nRet EXCEPT ![i] = @ + 1]
    /\ attempt' = [attempt EXCEPT ![i] = 0]
    /\ res' = [res EXCEPT ![i] = NoResult]
    /\ headLat' = [headLat EXCEPT ![i] = 0]
    /\ UNCHANGED <<sleep_s, nSleep, nAttempts>>

\* random.uniform(0, 0.25) is 0.25 * random(), and random() is a multiple of
\* 2^-53 in [0, 1): the draws modelled are the least, a middle one and the
\* greatest, one quantum below 0.25
Jitters == {0, JITTER_SPAN \div 2, JITTER_SPAN - 1}

\* spacing of the floating-point numbers around x
Ulp(x) ==
    IF 2 * x < Second THEN 2
    ELSE IF x < Second THEN 4
    ELSE IF x < 2 * Second THEN 8
    ELSE 16

\* x rounded to the nearest multiple of g, a tie going to the even multiple
RoundTo(x, g) ==
    LET lo == (x \div g) * g
        r == x - lo
    IN IF 2 * r < g THEN lo
       ELSE IF 2 * r > g THEN lo + g
       ELSE IF (lo \div g) % 2 = 0 THEN lo ELSE lo + g

\* a + b in floating point: the exact sum, rounded to the nearest float
FloatAdd(a, b) == RoundTo(a + b, Ulp(a + b))

\* mutant: the exponent is attempt instead of attempt - 1
BackoffExponentOff(k) == BACKOFF_BASE * (2 ^ k)

\* BACKOFF_BASE * (2 ** (attempt - 1)): exact, a scaling by a power of two
Backoff(k) == BACKOFF_BASE * (2 ^ (k - 1))

\* line 89: sleep_s for a failed attempt k and a jitter draw j
SleepSeconds(k, j) == FloatAdd(Backoff(k), j)

\* mutant: only the first attempt's result is bound
AssignFirstOnly(old, r) == IF old.status = 0 THEN r ELSE old

\* line 82: ok, status, latency, err = _attempt(url) rebinds the locals,
\* whatever an earlier attempt left in them
Assign(old, r) == r

\* mutant: no sleep between a failed attempt and the next one
HandleNoSleep(i, r) ==
    IF r.ok
    THEN Return(i, SuccessOutcome(urls[i], r, attempt[i]))
    ELSE IF MoreAttempts(attempt[i])
         THEN /\ tpc' = [tpc EXCEPT ![i] = "head"]
              /\ res' = [res EXCEPT ![i] = r]
              /\ headLat' = [headLat EXCEPT ![i] = 0]
              /\ attempt' = [attempt EXCEPT ![i] = @ + 1]
              /\ nAttempts' = [nAttempts EXCEPT ![i] = @ + 1]
              /\ UNCHANGED <<sleep_s, outcome, completed, nRet, nSleep>>
         ELSE Return(i, FailOutcome(urls[i], r))

\* lines 82-94: _attempt returned r for entry i
Handle(i, r) ==
    IF Assign(res[i], r).ok
    THEN Return(i, SuccessOutcome(urls[i], Assign(res[i], r), attempt[i]))
    ELSE IF MoreAttempts(attempt[i])
         THEN /\ tpc' = [tpc EXCEPT ![i] = "sleep"]
              /\ res' = [res EXCEPT ![i] = Assign(@, r)]
              /\ headLat' = [headLat EXCEPT ![i] = 0]
              /\ \E j \in Jitters :
                    sleep_s' = [sleep_s EXCEPT ![i] = SleepSeconds(attempt[i], j)]
              /\ nSleep' = [nSleep EXCEPT ![i] = @ + 1]
              /\ UNCHANGED <<attempt, outcome, completed, nRet, nAttempts>>
         ELSE Return(i, FailOutcome(urls[i], Assign(res[i], r)))

\* what a future holds when its call ended with an exception
Raised(url) == [url |-> url, exception |-> "ValueError"]

\* an exception that is no RequestException leaves _attempt and ping_backend
Raise(i) ==
    /\ tpc' = [tpc EXCEPT ![i] = "raised"]
    /\ completed' = Append(completed, Raised(urls[i]))
    /\ attempt' = [attempt EXCEPT ![i] = 0]
    /\ res' = [res EXCEPT ![i] = NoResult]
    /\ headLat' = [headLat EXCEPT ![i] = 0]
    /\ UNCHANGED <<sleep_s, outcome, trace, nAttempts, nReq, nSleep, nRet>>

\* mutant: a call that sleeps between two attempts gives up its thread
RunningAwake == {i \in Targets : tpc[i] \in {"head", "get"}}

\* the calls of ping_backend that hold a pool thread: a call keeps its
\* thread from its first line to its return, time.sleep included
Running == {i \in Targets : tpc[i] \in {"head", "get", "sleep"}}
Finished == {i \in Targets : tpc[i] \in {"returned", "raised"}}

\* a pool thread takes the oldest queued work item and calls ping_backend,
\* which enters the loop and calls _attempt
Start(i) ==
    /\ tpc[i] = "queued"
    /\ \A j \in Targets : j < i => tpc[j] # "queued"
    /\ Cardinality(Running) < workers
    /\ tpc' = [tpc EXCEPT ![i] = "head"]
    /\ attempt' = [attempt EXCEPT ![i] = 1]
    /\ nAttempts' = [nAttempts EXCEPT ![i] = @ + 1]
    /\ UNCHANGED <<res, headLat, sleep_s, outcome, completed, trace, nReq,
                   nSleep, nRet>>
    /\ UNCHANGED mainVars
    /\ UNCHANGED urlVars

\* lines 54-61 and 73-75: the HEAD request and its outcome
SessionHead(i) ==
    /\ tpc[i] = "head"
    /\ UNCHANGED mainVars
    /\ UNCHANGED urlVars
    /\ IF ParseRaises(urls[i])
       THEN Raise(i)
       ELSE /\ nReq' = [nReq EXCEPT ![i] = @ + 1]
            /\ \E d \in Durations(urls[i]) :
                \/ \E sc \in Statuses(urls[i]) :
                    /\ trace' = [trace EXCEPT ![i] = <<Answered("HEAD", sc, d)>>]
                    /\ IF Acceptable(sc)
                       THEN Handle(i, Success(sc, d))
                       ELSE /\ tpc' = [tpc EXCEPT ![i] = "get"]
                            /\ headLat' = [headLat EXCEPT ![i] = d]
                            /\ UNCHANGED <<attempt, res, sleep_s, outcome,
                                           completed, nAttempts, nSleep, nRet>>
                \/ \E m \in Errors(urls[i]) :
                    /\ trace' = [trace EXCEPT ![i] = <<Unanswered("HEAD", m, d)>>]
                    /\ Handle(i, TransportFailure(d, m))

\* lines 63-75: the fallback GET and its outcome; latency counts from start
SessionGet(i) ==
    /\ tpc[i] = "get"
    /\ UNCHANGED mainVars
    /\ UNCHANGED urlVars
    /\ nReq' = [nReq EXCEPT ![i] = @ + 1]
    /\ \E d \in Durations(urls[i]) :
        LET lat == headLat[i] + d IN
        \/ \E sc \in Statuses(urls[i]) :
            /\ trace' = [trace EXCEPT ![i] = Append(@, Answered("GET", sc, lat))]
            /\ Handle(i, GetResult(sc, lat))
        \/ \E m \in Errors(urls[i]) :
            /\ trace' = [trace EXCEPT ![i] = Append(@, Unanswered("GET", m, lat))]
            /\ Handle(i, TransportFailure(lat, m))

\* line 91 returns: the backoff sleep is over, the loop calls _attempt again
\* (sleep_s is not read again; it is cleared here)
Wake(i) ==
    /\ tpc[i] = "sleep"
    /\ tpc' = [tpc EXCEPT ![i] = "head"]
    /\ attempt' = [attempt EXCEPT ![i] = @ + 1]
    /\ nAttempts' = [nAttempts EXCEPT ![i] = @ + 1]
    /\ trace' = [trace EXCEPT ![i] = <<>>]
    /\ sleep_s' = [sleep_s EXCEPT ![i] = 0]
    /\ UNCHANGED <<res, headLat, outcome, completed, nReq, nSleep, nRet>>
    /\ UNCHANGED mainVars
    /\ UNCHANGED urlVars

\* ----------------------------------------------------------------------
\* ping_all: fan-out, collection and summary (src/main.py:97-129)
\* ----------------------------------------------------------------------
Min(a, b) == IF a < b THEN a ELSE b
Max(a, b) == IF a > b THEN a ELSE b

\* mutant: the cap is not applied
WorkersNoCap(n) == Max(1, n)

\* workers = max(1, min(len(urls), MAX_WORKERS))
Workers(n) == Max(1, Min(n, MAX_WORKERS))

\* max(iterable, key=...): the running maximum is replaced only by an item
\* whose key is greater, so the first of several maximal items is kept
RECURSIVE MaxByLatency(_, _)
MaxByLatency(rest, best) ==
    IF rest = <<>> THEN best
    ELSE MaxByLatency(Tail(rest),
            IF Head(rest).latency > best.latency THEN Head(rest) ELSE best)

\* min(iterable, key=...): replaced only by an item whose key is smaller
RECURSIVE MinByLatency(_, _)
MinByLatency(rest, best) ==
    IF rest = <<>> THEN best
    ELSE MinByLatency(Tail(rest),
            IF Head(rest).latency < best.latency THEN Head(rest) ELSE best)

\* mutant: a later item replaces the maximum on a tie
RECURSIVE MaxByLatencyLast(_, _)
MaxByLatencyLast(rest, best) ==
    IF rest = <<>> THEN best
    ELSE MaxByLatencyLast(Tail(rest),
            IF Head(rest).latency >= best.latency THEN Head(rest) ELSE best)
SlowestLastOnTies(rs) == MaxByLatencyLast(Tail(rs), Head(rs))

\* line 116: max(results, key=lambda r: r["latency"])
Slowest(rs) == MaxByLatency(Tail(rs), Head(rs))

\* line 117: min(results, key=lambda r: r["latency"])
Fastest(rs) == MinByLatency(Tail(rs), Head(rs))

\* {status if status != -1 else 'ERR'}
StatusText(sc) == IF sc # -1 THEN ToString(sc) ELSE "ERR"

\* one line of the failure listing
FailureLine(r) ==
    [url |-> r.url, status |-> StatusText(r.status), attempts |-> r.attempts,
     error |-> r.error]

\* mutant: the test of line 127 is missing
IsFailAlways(r) == TRUE

IsFail(r) == ~r.ok
IsOk(r) == r.ok

RECURSIVE FailureLines(_)
FailureLines(rs) ==
    IF rs = <<>> THEN <<>>
    ELSE IF IsFail(Head(rs)) THEN <<FailureLine(Head(rs))>> \o FailureLines(Tail(rs))
         ELSE FailureLines(Tail(rs))

\* lines 114-129: what the summary block reports
Summary(rs) ==
    LET ok_n == Len(SelectSeq(rs, IsOk))
        fail_n == Len(rs) - ok_n
    IN [total |-> Len(rs), ok_n |-> ok_n, fail_n |-> fail_n,
        fastest |-> IF rs # <<>> THEN <<Fastest(rs)>> ELSE <<>>,
        slowest |-> IF rs # <<>> THEN <<Slowest(rs)>> ELSE <<>>,
        failures |-> IF rs # <<>> /\ fail_n # 0 THEN FailureLines(rs) ELSE <<>>]

\* mutant: the return of line 100 is missing
NoUrlsFallThrough ==
    /\ mainpc = "start"
    /\ urls = <<>>
    /\ nNoUrls' = nNoUrls + 1
    /\ nJitter' = nJitter + 1
    /\ workers' = 1
    /\ mainpc' = "collect"
    /\ UNCHANGED <<urls, submitted, earlyLeft, collected, results, summary>>
    /\ UNCHANGED taskVars
    /\ UNCHANGED urlVars

\* lines 98-100: no targets, one error event, return
NoUrls ==
    /\ mainpc = "start"
    /\ urls = <<>>
    /\ nNoUrls' = nNoUrls + 1
    /\ mainpc' = "done"
    /\ UNCHANGED <<urls, workers, submitted, earlyLeft, collected, results, summary,
                   nJitter>>
    /\ UNCHANGED taskVars
    /\ UNCHANGED urlVars

\* lines 102-108: startup jitter, pool size, the pool is created
Launch ==
    /\ mainpc = "start"
    /\ urls # <<>>
    /\ nJitter' = nJitter + 1
    /\ workers' = Workers(Len(urls))
    /\ mainpc' = "submit"
    /\ UNCHANGED <<urls, submitted, earlyLeft, collected, results, summary, nNoUrls>>
    /\ UNCHANGED taskVars
    /\ UNCHANGED urlVars

\* line 109: ex.submit(ping_backend, u) for the next entry of the list
Submit ==
    /\ mainpc = "submit"
    /\ submitted < Len(urls)
    /\ submitted' = submitted + 1
    /\ tpc' = [tpc EXCEPT ![submitted + 1] = "queued"]
    /\ mainpc' = IF submitted + 1 = Len(urls) THEN "as_completed" ELSE "submit"
    /\ UNCHANGED <<urls, workers, earlyLeft, collected, results, summary, nNoUrls,
                   nJitter>>
    /\ UNCHANGED <<attempt, res, headLat, sleep_s, outcome, completed, trace,
                   nAttempts, nReq, nSleep, nRet>>
    /\ UNCHANGED urlVars

\* mutant: the dict is keyed by URL, a repeated URL keeps its last future
FuturesByUrl ==
    {i \in Targets : \A j \in Targets : urls[j] = urls[i] => j <= i}

\* line 109: the dict of futures has one key per list entry, a future
Futures == Targets

\* line 110: as_completed(futures) is entered; it sets apart the futures
\* that are already finished
AsCompleted ==
    /\ mainpc = "as_completed"
    /\ earlyLeft' = Cardinality(Futures \cap Finished)
    /\ mainpc' = "collect"
    /\ UNCHANGED <<urls, workers, submitted, collected, results, summary, nNoUrls,
                   nJitter>>
    /\ UNCHANGED taskVars
    /\ UNCHANGED urlVars

\* number of positions of sequence s that hold x
Count(s, x) == Cardinality({k \in 1..Len(s) : s[k] = x})

\* what future i was completed with
Completion(i) ==
    IF tpc[i] = "returned" THEN outcome[i][1] ELSE Raised(urls[i])

\* mutant: any finished future may be yielded next
YieldsNextAnyFinished(i) == i \in Finished

\* what the futures found finished at the entry of as_completed were
\* completed with: they are the first to be yielded
EarlyCompletions == SubSeq(completed, 1, Cardinality(collected) + earlyLeft)

\* as_completed yields first the futures that were finished when it was
\* entered, in the iteration order of a set, then the others as they
\* complete. Futures completed with equal values stand for one another:
\* a future is told from the others by what it was completed with.
YieldsNext(i) ==
    /\ i \in Finished
    /\ IF earlyLeft = 0
       THEN Completion(i) = completed[Cardinality(collected) + 1]
       ELSE Count(EarlyCompletions, Completion(i)) >
                Cardinality({j \in collected : Completion(j) = Completion(i)})

\* lines 110-111: as_completed yields a finished future once; fut.result()
\* returns its dict or raises the exception that ended ping_backend
Collect(i) ==
    /\ mainpc = "collect"
    /\ i \in Futures
    /\ i \notin collected
    /\ YieldsNext(i)
    /\ earlyLeft' = IF earlyLeft = 0 THEN 0 ELSE earlyLeft - 1
    /\ collected' = collected \cup {i}
    /\ IF tpc[i] = "returned"
       THEN /\ results' = Append(results, outcome[i][1])
            /\ mainpc' = mainpc
       ELSE /\ results' = results
            /\ mainpc' = "shutdown"
    /\ UNCHANGED <<urls, workers, submitted, summary, nNoUrls, nJitter>>
    /\ UNCHANGED taskVars
    /\ UNCHANGED urlVars

\* lines 112-129: every future was yielded; the pool is shut down and the
\* summary is logged
Summarize ==
    /\ mainpc = "collect"
    /\ collected = Futures
    /\ summary' = <<Summary(results)>>
    /\ mainpc' = "done"
    /\ UNCHANGED <<urls, workers, submitted, earlyLeft, collected, results, nNoUrls,
                   nJitter>>
    /\ UNCHANGED taskVars
    /\ UNCHANGED urlVars

\* line 108, leaving the with block on an exception: shutdown(wait=True)
\* joins the pool threads, then the exception leaves ping_all
Crash ==
    /\ mainpc = "shutdown"
    /\ Finished = Targets
    /\ mainpc' = "crashed"
    /\ UNCHANGED <<urls, workers, submitted, earlyLeft, collected, results, summary,
                   nNoUrls, nJitter>>
    /\ UNCHANGED taskVars
    /\ UNCHANGED urlVars

Next ==
    \/ NoUrls
    \/ Launch
    \/ Submit
    \/ AsCompleted
    \/ Summarize
    \/ Crash
    \/ \E i \in Targets : Start(i)
    \/ \E i \in Targets : SessionHead(i)
    \/ \E i \in Targets : SessionGet(i)
    \/ \E i \in Targets : Wake(i)
    \/ \E i \in Targets : Collect(i)

Spec == Init /\ [][Next]_vars

\* the run with its threads scheduled: the main thread and every worker
\* that can take a step eventually takes one; a request always returns or
\* times out (SessionHead and SessionGet are always able to complete)
FairSpec == Spec /\ WF_vars(Next)

\* ----------------------------------------------------------------------
\* Properties
\* ----------------------------------------------------------------------
\* what the latest _attempt of entry i returned, as ping_backend holds it:
\* in its locals while it sleeps, in the dict once it has returned
HasResult(i) == tpc[i] \in {"sleep", "returned"}
LastResult(i) ==
    IF tpc[i] = "sleep" THEN res[i]
    ELSE [ok |-> outcome[i][1].ok, status |-> outcome[i][1].status,
          latency |-> outcome[i][1].latency, error |-> outcome[i][1].error]

LastRequest(i) == trace[i][Len(trace[i])]

\* C1: ping_backend returns exactly one outcome per target, whatever the
\* probes answer, and its attempts field lies in 1..RETRIES and equals the
\* number of _attempt calls made for the target.
C1_AttemptsCountProbes ==
    \A i \in Targets :
        /\ nRet[i] <= 1
        /\ Len(outcome[i]) = nRet[i]
        /\ (tpc[i] = "returned") <=> (nRet[i] = 1)
        /\ nAttempts[i] <= RETRIES
        /\ ~ParseRaises(urls[i]) => tpc[i] # "raised"
        /\ tpc[i] = "returned" =>
              /\ outcome[i][1].attempts \in 1..RETRIES
              /\ outcome[i][1].attempts = nAttempts[i]

C1_Witness ==
    \E i, j \in Targets :
        /\ tpc[i] = "returned" /\ outcome[i][1].ok /\ outcome[i][1].attempts = 2
        /\ tpc[j] = "returned" /\ ~outcome[j][1].ok /\ nAttempts[j] = RETRIES

\* C2 (state part): a successful outcome carries the number of the attempt
\* that succeeded and that attempt's status; every earlier attempt failed.
C2_State ==
    \A i \in Targets :
        (tpc[i] = "returned" /\ outcome[i][1].ok) =>
            /\ outcome[i][1].attempts = nAttempts[i]
            /\ nSleep[i] = nAttempts[i] - 1
            /\ LastRequest(i).answered
            /\ Acceptable(LastRequest(i).status)
            /\ outcome[i][1].status = LastRequest(i).status

\* C2 (step part): once ping_backend has returned success for a target, no
\* step sends a request, begins a sleep or starts an attempt for it.
C2_Step ==
    \A i \in Targets :
        (tpc[i] = "returned" /\ outcome[i][1].ok) =>
            /\ nReq'[i] = nReq[i]
            /\ nSleep'[i] = nSleep[i]
            /\ nAttempts'[i] = nAttempts[i]
            /\ tpc'[i] = "returned"
            /\ outcome'[i] = outcome[i]

\* C2: success on attempt k gives ok=true, attempts = k and that attempt's
\* status, and nothing more is sent or slept for the target afterwards.
C2_SuccessEndsPing == []C2_State /\ [][C2_Step]_vars

C2_Witness ==
    \E i \in Targets :
        /\ tpc[i] = "returned" /\ outcome[i][1].ok
        /\ outcome[i][1].attempts = RETRIES
        /\ nReq[i] > RETRIES
        /\ i \in collected

\* C3: when no attempt succeeds the outcome has ok=false and
\* attempts = RETRIES, and its status, latency and error are those of the
\* last attempt: of the request that ended attempt number RETRIES.
C3_FinalFailureIsLastAttempt ==
    \A i \in Targets :
        (tpc[i] = "returned" /\ ~outcome[i][1].ok) =>
            /\ outcome[i][1].attempts = RETRIES
            /\ nAttempts[i] = RETRIES
            /\ nSleep[i] = RETRIES - 1
            /\ outcome[i][1].latency = LastRequest(i).at
            /\ IF LastRequest(i).answered
               THEN /\ outcome[i][1].status = LastRequest(i).status
                    /\ ~Acceptable(outcome[i][1].status)
                    /\ outcome[i][1].error =
                          "Unexpected status " \o ToString(LastRequest(i).status)
               ELSE /\ outcome[i][1].status = -1
                    /\ outcome[i][1].error = LastRequest(i).msg

\* a final failure whose last attempt differs from what an earlier attempt
\* left: the last attempt ended in a GET answered 404 after two ticks
C3_Witness ==
    \E i \in Targets :
        /\ tpc[i] = "returned" /\ ~outcome[i][1].ok
        /\ outcome[i][1].status = 404
        /\ outcome[i][1].latency = 2
        /\ Len(trace[i]) = 2

\* C4: when ping_all reaches the summary, results holds exactly one outcome
\* per list entry: as many as entries, each future yielded once, and the
\* outcomes in results are, with multiplicity, the dicts the entries' calls
\* returned, so each carries the url of its entry.
C4_OneOutcomePerEntry ==
    summary # <<>> =>
        /\ Len(results) = Len(urls)
        /\ collected = Targets
        /\ \A i \in Targets :
              /\ tpc[i] = "returned"
              /\ outcome[i][1].url = urls[i]
              /\ Count(results, outcome[i][1]) =
                    Cardinality({j \in Targets : outcome[j] = outcome[i]})
        /\ \A u \in {urls[i] : i \in Targets} :
              Cardinality({k \in 1..Len(results) : results[k].url = u}) =
                 Count(urls, u)

C4_Witness ==
    /\ summary # <<>>
    /\ Len(urls) > MAX_WORKERS
    /\ Count(urls, urls[1]) > 1

\* C5: at most max(1, min(len(urls), MAX_WORKERS)) ping_backend calls have
\* started and not returned; a further target stays queued meanwhile.
C5_BoundedConcurrency ==
    LET n == Len(urls)
        cap == IF n < MAX_WORKERS THEN n ELSE MAX_WORKERS
        bound == IF cap < 1 THEN 1 ELSE cap
    IN /\ Cardinality(Running) <= bound
       /\ mainpc \notin {"start"} /\ urls # <<>> => workers = bound

C5_Witness ==
    /\ Cardinality(Running) = MAX_WORKERS
    /\ \E i \in Targets : tpc[i] = "queued"

\* C6: an error raised while probing one target is never fatal to the run:
\* for a non-empty list, ping_all ends only after it has collected an
\* outcome for every target and logged the summary.
C6_NoProbeErrorIsFatal ==
    (urls # <<>> /\ mainpc \in {"done", "crashed"}) =>
        /\ summary # <<>>
        /\ Len(results) = Len(urls)
        /\ \A i \in Targets : tpc[i] = "returned"

\* C7: with an empty list ping_all logs one error event and returns at
\* once: no jitter sleep, no pool, no submission, no request, no outcome
\* and no summary.
C7_EmptyListShortCircuits ==
    urls = <<>> =>
        /\ mainpc \in {"start", "done"}
        /\ nNoUrls = (IF mainpc = "done" THEN 1 ELSE 0)
        /\ nJitter = 0
        /\ workers = 0
        /\ submitted = 0
        /\ collected = {}
        /\ results = <<>>
        /\ summary = <<>>
        /\ Targets = {}

C7_Witness == urls = <<>> /\ mainpc = "done" /\ nNoUrls = 1

AcceptableSet == {200, 204, 301, 302, 307, 308}

\* C8: a HEAD answered with 200, 204, 301, 302, 307 or 308 ends the attempt
\* with success, that status and an empty error, and no GET is sent.
C8_AcceptableHeadNoGet ==
    \A i \in Targets :
        (/\ trace[i] # <<>>
         /\ trace[i][1].answered
         /\ trace[i][1].status \in AcceptableSet) =>
            /\ Len(trace[i]) = 1
            /\ trace[i][1].method = "HEAD"
            /\ tpc[i] = "returned"
            /\ LastResult(i) = [ok |-> TRUE, status |-> trace[i][1].status,
                                latency |-> trace[i][1].at, error |-> ""]

C8_Witness ==
    \E i \in Targets :
        /\ Len(trace[i]) = 1
        /\ trace[i][1].answered
        /\ trace[i][1].status = 307
        /\ tpc[i] = "returned"
        /\ nAttempts[i] = 2

\* C9: a HEAD answered with an unacceptable status is followed by exactly
\* one GET, and the GET alone decides the attempt: an acceptable GET status
\* gives success with it, an unacceptable one gives failure with the GET's
\* status and the error "Unexpected status <that status>".
C9_GetDecidesAfterBadHead ==
    \A i \in Targets :
        (/\ trace[i] # <<>>
         /\ trace[i][1].answered
         /\ trace[i][1].status \notin AcceptableSet) =>
            /\ trace[i][1].method = "HEAD"
            /\ \/ Len(trace[i]) = 1 /\ tpc[i] = "get"
               \/ /\ Len(trace[i]) = 2
                  /\ trace[i][2].method = "GET"
                  /\ HasResult(i)
                  /\ trace[i][2].answered =>
                        IF trace[i][2].status \in AcceptableSet
                        THEN /\ LastResult(i).ok
                             /\ LastResult(i).status = trace[i][2].status
                             /\ LastResult(i).error = ""
                        ELSE /\ ~LastResult(i).ok
                             /\ LastResult(i).status = trace[i][2].status
                             /\ LastResult(i).error =
                                  "Unexpected status " \o ToString(trace[i][2].status)

\* HEAD 404 then GET 200
C9_Witness ==
    \E i \in Targets :
        /\ Len(trace[i]) = 2
        /\ trace[i][1].status = 404 /\ trace[i][2].status = 200
        /\ tpc[i] = "returned"
        /\ outcome[i][1].ok /\ outcome[i][1].status = 200

\* HEAD 404 then GET 503: the error names 503
C9_WitnessFail ==
    \E i \in Targets :
        /\ Len(trace[i]) = 2
        /\ trace[i][1].answered /\ trace[i][1].status = 404
        /\ trace[i][2].answered /\ trace[i][2].status = 503
        /\ HasResult(i)
        /\ LastResult(i).error = "Unexpected status 503"

\* some request of the latest attempt of entry i was answered
ResponseObtained(i) == \E k \in 1..Len(trace[i]) : trace[i][k].answered

\* C10 as stated: status = -1 exactly when the error message is non-empty
\* and no HTTP response was obtained in the attempt.
C10_SentinelIffErrorAndNoResponse ==
    \A i \in Targets :
        HasResult(i) =>
            ((LastResult(i).status = -1) <=>
                (LastResult(i).error # "" /\ ~ResponseObtained(i)))

\* C10 as amended: status = -1 exactly when the request that ended the
\* attempt (the HEAD, or the GET after an answered HEAD) raised a transport
\* exception; the result is then a failure whose error is the exception's
\* text, empty or not.
C10_SentinelIffTransportException ==
    \A i \in Targets :
        HasResult(i) =>
            /\ (LastResult(i).status = -1) <=> ~LastRequest(i).answered
            /\ LastResult(i).status = -1 =>
                  /\ ~LastResult(i).ok
                  /\ LastResult(i).error = LastRequest(i).msg

\* the GET raised an exception of empty text after the HEAD was answered
C10_Witness ==
    \E i \in Targets :
        /\ tpc[i] = "returned"
        /\ Len(trace[i]) = 2
        /\ trace[i][1].answered
        /\ ~trace[i][2].answered
        /\ outcome[i][1].status = -1
        /\ outcome[i][1].error = ""

\* C11 as stated: a backoff sleep happens only after a failed attempt i with
\* i < RETRIES, and lasts at least BACKOFF_BASE * 2^(i-1) and less than
\* BACKOFF_BASE * 2^(i-1) + 0.25.
C11_SleepInHalfOpenInterval ==
    \A i \in Targets :
        /\ nSleep[i] <= RETRIES - 1
        /\ tpc[i] = "sleep" =>
              /\ attempt[i] < RETRIES
              /\ ~res[i].ok
              /\ nSleep[i] = attempt[i]
              /\ sleep_s[i] >= BACKOFF_BASE * (2 ^ (attempt[i] - 1))
              /\ sleep_s[i] < BACKOFF_BASE * (2 ^ (attempt[i] - 1)) + JITTER_SPAN

\* C11 as amended: the same, with the upper end included: the sum of the
\* backoff and a jitter just below 0.25 rounds to the backoff plus 0.25.
C11_SleepInClosedInterval ==
    \A i \in Targets :
        /\ nSleep[i] <= RETRIES - 1
        /\ (tpc[i] = "returned" /\ outcome[i][1].ok) =>
              nSleep[i] = outcome[i][1].attempts - 1
        /\ tpc[i] = "sleep" =>
              /\ attempt[i] < RETRIES
              /\ ~res[i].ok
              /\ nSleep[i] = attempt[i]
              /\ sleep_s[i] >= BACKOFF_BASE * (2 ^ (attempt[i] - 1))
              /\ sleep_s[i] <= BACKOFF_BASE * (2 ^ (attempt[i] - 1)) + JITTER_SPAN

\* the upper end is reached at the second sleep: twice the base plus 0.25
C11_Witness ==
    \E i \in Targets :
        /\ tpc[i] = "sleep"
        /\ attempt[i] = 2
        /\ nSleep[i] = 2
        /\ sleep_s[i] = 2 * BACKOFF_BASE + JITTER_SPAN

\* a first sleep strictly inside the interval
C11_WitnessInside ==
    \E i \in Targets :
        /\ tpc[i] = "sleep"
        /\ attempt[i] = 1
        /\ sleep_s[i] > BACKOFF_BASE
        /\ sleep_s[i] < BACKOFF_BASE + JITTER_SPAN

\* C12 (state part): while a target is in attempt N+1, each of its N earlier
\* attempts returned a failure and was followed by a sleep that is over;
\* while it sleeps, the attempt before the sleep has returned a failure.
C12_State ==
    \A i \in Targets :
        /\ tpc[i] \in {"head", "get"} =>
              /\ nAttempts[i] = attempt[i]
              /\ nSleep[i] = attempt[i] - 1
        /\ tpc[i] = "sleep" =>
              /\ ~res[i].ok
              /\ nAttempts[i] = attempt[i]
              /\ nSleep[i] = attempt[i]
              /\ trace[i] # <<>>

\* C12 (step part): a further attempt of a target begins only by the return
\* of its sleep after a failed attempt, and that step sends no request; a
\* request of a target is sent only inside an attempt, one per step, never
\* while the target sleeps.
C12_Step ==
    \A i \in Targets :
        /\ (nAttempts'[i] # nAttempts[i] /\ nAttempts[i] >= 1) =>
              /\ tpc[i] = "sleep"
              /\ ~res[i].ok
              /\ nAttempts'[i] = nAttempts[i] + 1
              /\ nReq'[i] = nReq[i]
              /\ tpc'[i] = "head"
        /\ nReq'[i] # nReq[i] =>
              /\ tpc[i] \in {"head", "get"}
              /\ nReq'[i] = nReq[i] + 1

\* C12: the attempts of one target are strictly sequential under every
\* interleaving: attempt N+1 sends its first request only after attempt N
\* returned a failure and the sleep after it returned.
C12_AttemptsSequential == []C12_State /\ [][C12_Step]_vars

\* a target in the GET of its third attempt while another target sleeps
C12_Witness ==
    \E i, j \in Targets :
        /\ i # j
        /\ tpc[i] = "get" /\ attempt[i] = RETRIES /\ nSleep[i] = RETRIES - 1
        /\ tpc[j] = "sleep"

\* the line of the failure listing the claim expects for outcome d
ExpectedLine(d) ==
    [url |-> d.url,
     status |-> IF d.status = -1 THEN "ERR" ELSE ToString(d.status),
     attempts |-> d.attempts,
     error |-> d.error]

\* C13: the summary reports total = number of targets and ok + fail = total;
\* the failure listing holds one line per outcome with ok=false and none for
\* an outcome with ok=true, each line showing the target's last status (ERR
\* for -1), its attempts and its error; there is no listing without failure.
C13_SummaryCountsAndFailures ==
    summary # <<>> =>
        LET sm == summary[1]
            failed == {i \in Targets : ~outcome[i][1].ok}
        IN /\ sm.total = Len(urls)
           /\ sm.ok_n + sm.fail_n = sm.total
           /\ sm.fail_n = Cardinality(failed)
           /\ Len(sm.failures) = Cardinality(failed)
           /\ \A i \in failed :
                 Count(sm.failures, ExpectedLine(outcome[i][1])) =
                    Cardinality({j \in failed :
                        ExpectedLine(outcome[j][1]) = ExpectedLine(outcome[i][1])})
           /\ sm.fail_n = 0 => sm.failures = <<>>

\* a summary with a success, a transport failure and a status failure
C13_Witness ==
    /\ summary # <<>>
    /\ summary[1].ok_n = 1
    /\ summary[1].fail_n = 2
    /\ \E k \in 1..Len(summary[1].failures) : summary[1].failures[k].status = "ERR"
    /\ \E k \in 1..Len(summary[1].failures) : summary[1].failures[k].status = "503"

\* position in rs of the first element whose latency is the greatest
FirstMaxAt(rs) ==
    CHOOSE k \in 1..Len(rs) :
        /\ \A j \in 1..Len(rs) : rs[j].latency <= rs[k].latency
        /\ \A j \in 1..(k - 1) : rs[j].latency < rs[k].latency

\* position in rs of the first element whose latency is the least
FirstMinAt(rs) ==
    CHOOSE k \in 1..Len(rs) :
        /\ \A j \in 1..Len(rs) : rs[j].latency >= rs[k].latency
        /\ \A j \in 1..(k - 1) : rs[j].latency > rs[k].latency

\* C14: the fastest outcome reported has the least latency and the slowest
\* the greatest, over all outcomes collected; of several with the extreme
\* latency, the first in the order of the collection is the one reported.
C14_FastestSlowestFirstOnTies ==
    summary # <<>> =>
        /\ Len(summary[1].fastest) = 1
        /\ Len(summary[1].slowest) = 1
        /\ summary[1].fastest[1] = results[FirstMinAt(results)]
        /\ summary[1].slowest[1] = results[FirstMaxAt(results)]
        /\ \A k \in 1..Len(results) :
              /\ summary[1].fastest[1].latency <= results[k].latency
              /\ summary[1].slowest[1].latency >= results[k].latency

\* two different outcomes share the greatest latency, and two the least
C14_Witness ==
    /\ summary # <<>>
    /\ \E j, k \in 1..Len(results) :
          /\ j < k
          /\ results[j] # results[k]
          /\ results[j].latency = results[k].latency
          /\ results[j] = summary[1].slowest[1]
    /\ \E j, k \in 1..Len(results) :
          /\ j < k
          /\ results[j] # results[k]
          /\ results[j].latency = results[k].latency
          /\ results[j] = summary[1].fastest[1]

\* the fields of query q other than _kick, in their order
IsOther(f) == f[1] # "_kick"
Others(q) == SelectSeq(q, IsOther)

\* sequences s and t hold the same elements the same number of times
SameBag(s, t) ==
    /\ Len(s) = Len(t)
    /\ \A k \in 1..Len(s) : Count(s, s[k]) = Count(t, s[k])

\* the URL out is the URL in with its _kick set: same scheme, host and path,
\* the same fields besides _kick, and exactly one _kick field
BustedFrom(in, out) ==
    /\ out.scheme = in.scheme
    /\ out.netloc = in.netloc
    /\ out.path = in.path
    /\ SameBag(Others(out.query), Others(in.query))
    /\ Cardinality({k \in 1..Len(out.query) : out.query[k][1] = "_kick"}) = 1

\* C15: for every URL, also with repeated keys, empty values or a _kick,
\* _with_cache_bust keeps scheme, host, path and every query field other
\* than _kick and leaves exactly one _kick; applied twice it differs from
\* applied once only in the value of _kick.
C15_CacheBustPreservesQuery ==
    /\ bustOnce # <<>> => BustedFrom(bustIn, bustOnce[1])
    /\ bustTwice # <<>> =>
          /\ BustedFrom(bustIn, bustTwice[1])
          /\ Others(bustTwice[1].query) = Others(bustOnce[1].query)
          /\ Len(bustTwice[1].query) = Len(bustOnce[1].query)

\* the run is over: every target has its final outcome after at most
\* RETRIES attempts and the summary was emitted
Completed ==
    /\ mainpc = "done"
    /\ summary # <<>>
    /\ \A i \in Targets :
          /\ tpc[i] = "returned"
          /\ outcome[i][1].attempts \in 1..RETRIES

\* C16: with requests that return or time out and fair scheduling, every
\* run of ping_all over a non-empty target list eventually completes:
\* every target has a final outcome after at most RETRIES attempts and the
\* summary is emitted, whatever number of targets failed.
C16_RunEventuallyCompletes == (urls # <<>>) ~> Completed

\* the dicts the calls returned, in the order the calls completed
IsOutcome(c) == "ok" \in DOMAIN c
ReturnedInOrder == SelectSeq(completed, IsOutcome)

\* the summary is there only when every call has returned and every
\* outcome is in results, once
SummaryOverAll ==
    summary # <<>> =>
        /\ \A i \in Targets : tpc[i] = "returned"
        /\ collected = Targets
        /\ Len(results) = Len(urls)
        /\ SameBag(results, ReturnedInOrder)
        /\ summary[1] = Summary(results)

\* C17 as stated: the summary is computed only after every call has
\* returned and its outcome is in results, and results holds the outcomes
\* in the order the calls completed.
C17_ResultsInCompletionOrder ==
    /\ SummaryOverAll
    /\ Len(results) <= Len(ReturnedInOrder)
    /\ \A k \in 1..Len(results) : results[k] = ReturnedInOrder[k]

\* results grows by one outcome per step, in a step of the thread running
\* ping_all and of no worker; the outcome is that of a finished call not
\* yet yielded: one completed before as_completed was entered while such
\* are left, and after them the next in completion order
C17_Step ==
    results' # results =>
        /\ mainpc = "collect"
        /\ UNCHANGED taskVars
        /\ \E i \in Targets \ collected :
              /\ tpc[i] = "returned"
              /\ collected' = collected \cup {i}
              /\ results' = Append(results, outcome[i][1])
              /\ IF earlyLeft = 0
                 THEN outcome[i][1] = completed[Cardinality(collected) + 1]
                 ELSE \E k \in 1..(Cardinality(collected) + earlyLeft) :
                         completed[k] = outcome[i][1]

\* C17 (amended): the summary is computed only after every call has
\* returned and its outcome is in results; the outcomes are added one at a
\* time by the thread running ping_all, first those of the calls that had
\* completed when as_completed was entered, in no fixed order, then the
\* others in completion order; no outcome is lost and no summary is
\* computed over a part of them.
C17_CollectedThenSummarized ==
    /\ []SummaryOverAll
    /\ []((mainpc = "collect" /\ earlyLeft = 0) =>
             \A k \in (Len(results) + 1)..Len(ReturnedInOrder) :
                \E i \in Targets \ collected : outcome[i] = <<ReturnedInOrder[k]>>)
    /\ [][C17_Step]_vars

\* a summary over two or more outcomes that were not added in completion
\* order
C17_Witness ==
    /\ summary # <<>>
    /\ Len(results) >= 2
    /\ results # ReturnedInOrder
    /\ SameBag(results, ReturnedInOrder)

\* the targets whose retry sequence has begun and is not over
InRetrySequence == {i \in Targets : tpc[i] \in {"head", "get", "sleep"}}

\* at the end of a run every target was dispatched; a sleeping call leaves
\* the other calls able to take their next step, and a free worker able
\* to take the oldest queued target
C18_State ==
    /\ (mainpc \in {"done", "crashed"} /\ urls # <<>>) =>
          \A i \in Targets : tpc[i] \in {"returned", "raised"}
    /\ Cardinality(InRetrySequence) <= workers
    /\ \A i \in Targets : tpc[i] = "sleep" =>
          \A j \in Targets \ {i} :
             /\ tpc[j] = "head" => ENABLED SessionHead(j)
             /\ tpc[j] = "get" => ENABLED SessionGet(j)
             /\ tpc[j] = "sleep" => ENABLED Wake(j)
             /\ (/\ tpc[j] = "queued"
                 /\ \A k \in 1..(j - 1) : tpc[k] # "queued"
                 /\ Cardinality(InRetrySequence) < workers) => ENABLED Start(j)

\* a target is queued once, by its submit; it leaves the queue once, for
\* the first attempt of its call and only when fewer than workers calls
\* are in their retry sequence; a finished call is never run again
C18_Step ==
    \A i \in Targets :
       /\ tpc'[i] = "queued" => tpc[i] \in {"unsubmitted", "queued"}
       /\ tpc[i] = "unsubmitted" => tpc'[i] \in {"unsubmitted", "queued"}
       /\ (tpc[i] = "queued" /\ tpc'[i] # "queued") =>
             /\ tpc'[i] = "head"
             /\ attempt'[i] = 1
             /\ Cardinality(InRetrySequence) < workers
       /\ tpc[i] \in {"returned", "raised"} => tpc'[i] = tpc[i]
       /\ (tpc[i] \in {"head", "get", "sleep"} /\ tpc'[i] # tpc[i]) =>
             tpc'[i] \in {"head", "get", "sleep", "returned", "raised"}

\* C18: each target is dispatched to a worker exactly once; a worker takes
\* a queued target only after the call it was running has finished its
\* whole retry sequence, sleeps included; a worker in a backoff sleep does
\* not keep the other workers from going on with their targets.
C18_DispatchedOnceWorkerHeld == []C18_State /\ [][C18_Step]_vars

\* one call sleeps between two attempts, every worker is taken and a
\* target waits in the queue
C18_Witness ==
    /\ \E i \in Targets : tpc[i] = "sleep"
    /\ \E j \in Targets : tpc[j] = "queued"
    /\ Cardinality(InRetrySequence) = workers
    /\ workers = MAX_WORKERS

\* C19: in every outcome ping_backend returned, ok is true exactly when
\* status is one of 200, 204, 301, 302, 307, 308; an ok outcome has an
\* empty error text; an outcome that is not ok has status -1 or an HTTP
\* status outside that set.
C19_OkIffAcceptableStatus ==
    \A i \in Targets : outcome[i] # <<>> =>
        LET o == outcome[i][1] IN
        /\ o.ok <=> o.status \in {200, 204, 301, 302, 307, 308}
        /\ o.ok => o.error = ""
        /\ ~o.ok => (o.status = -1 \/
                     (o.status \in 100..599 /\
                      o.status \notin {200, 204, 301, 302, 307, 308}))

\* a run with an ok outcome and a failed one with an HTTP status
C19_Witness ==
    /\ \E i \in Targets :
          outcome[i] # <<>> /\ outcome[i][1].ok /\ outcome[i][1].status = 200
    /\ \E j \in Targets :
          outcome[j] # <<>> /\ ~outcome[j][1].ok /\ outcome[j][1].status = 503

\* an ok outcome on a redirect status
C19_WitnessRedirect ==
    \E i \in Targets :
        outcome[i] # <<>> /\ outcome[i][1].ok /\ outcome[i][1].status = 308

\* an ok outcome and a failed one with the sentinel
C19_WitnessSentinel ==
    \E i, j \in Targets :
        /\ outcome[i] # <<>> /\ outcome[i][1].ok
        /\ outcome[j] # <<>> /\ ~outcome[j][1].ok /\ outcome[j][1].status = -1

\* the requests of target i's current attempt are one HEAD, or one HEAD
\* answered with an unacceptable status and then one GET
OneHeadThenGet(i) ==
    /\ Len(trace[i]) \in 1..2
    /\ trace[i][1].method = "HEAD"
    /\ Len(trace[i]) = 2 =>
          /\ trace[i][2].method = "GET"
          /\ trace[i][1].answered
          /\ trace[i][1].status \notin AcceptableSet

\* C20: each attempt issues exactly one HEAD and at most one GET, the GET
\* only after the HEAD of the same attempt was answered with an
\* unacceptable status, never after a HEAD that failed in transport; the
\* requests sent for a target are between 1 and 2 * RETRIES.
C20_RequestsPerAttempt ==
    \A i \in Targets :
        /\ trace[i] # <<>> => OneHeadThenGet(i)
        /\ tpc[i] = "get" => Len(trace[i]) = 1
        /\ tpc[i] \in {"sleep", "returned", "raised"} => OneHeadThenGet(i)
        /\ nReq[i] <= 2 * RETRIES
        /\ tpc[i] \in {"returned", "raised"} => nReq[i] >= 1

====
